---------------------------- MODULE Spec2Model ----------------------------
(***************************************************************************)
(* Model of src/src/wireviz/wv_dataclasses.py: construction of Connector   *)
(* and Cable objects, pin activation, connection recording and the         *)
(* quantity-multiplier resolver.                                           *)
(*                                                                         *)
(* Encoding of Python values:                                              *)
(*   - None of a string-typed field is the string "None";                  *)
(*   - None of an int-typed field (pincount, wirecount, a pin id padded by *)
(*     zip_longest) is 0, which is never drawn as a user value for ids and *)
(*     is falsy like None for the counts;                                  *)
(*   - the reserved wire id "s" is ShieldId, outside the wire numbers;     *)
(*   - a NumberAndUnit is a record [number, unit]; an Optional one is      *)
(*     NoneNU or such a record;                                            *)
(*   - a raised exception is a result [ok |-> FALSE, err |-> ...]; a       *)
(*     method that returns normally gives [ok |-> TRUE, obj |-> self'].    *)
(***************************************************************************)
EXTENDS Integers, Sequences, FiniteSets, TLC

VARIABLES connector, cable, outcome

vars == <<connector, cable, outcome>>

\* ---------------------------------------------------------------- bounds
MaxPins == 3
MaxPinId == 2
MaxPinList == 2
MaxLoops == 2
MaxSub == 2
MaxConn == 2
MaxConnections == 2
MaxWires == 2
MaxAmount == 2

\* ------------------------------------------------------- program constants
NoneId == 0
NoCount == 0
ShieldId == -1
TERMINATIONS_VALUE == 999

None == "None"
NoneNU == [isnone |-> TRUE]
\* not constructed yet; construction raised (no object, and no second attempt)
NoObject == [exists |-> FALSE, raised |-> FALSE]
Raised == [exists |-> FALSE, raised |-> TRUE]

NumberAndUnit(number, unit) == [isnone |-> FALSE, number |-> number, unit |-> unit]

Ok(obj) == [ok |-> TRUE, obj |-> obj]
Failed(err) == [ok |-> FALSE, err |-> err]

AUTOGENERATED == {"AUTOGENERATED_X2", "AUTOGENERATED_W2"}

is_autogenerated(designator) == designator \in AUTOGENERATED

NoPartnumbers == [isnone |-> TRUE]

PartNumberInfo(pn, manufacturer, mpn, supplier, spn) ==
  [isnone |-> FALSE, pn |-> pn, manufacturer |-> manufacturer, mpn |-> mpn,
   supplier |-> supplier, spn |-> spn]

\* ---------------------------------------------------------------- helpers
Max2(a, b) == IF a >= b THEN a ELSE b

Range(s) == {s[i] : i \in 1..Len(s)}

\* zip_longest: element i (1-based) of list s, padded with fill
Pad(s, i, fill) == IF i <= Len(s) THEN s[i] ELSE fill

RECURSIVE SumOver(_, _)
SumOver(f, S) ==
  IF S = {} THEN 0
  ELSE LET x == CHOOSE y \in S : TRUE IN f[x] + SumOver(f, S \ {x})

SeqsUpTo(S, n) == UNION {[1..k -> S] : k \in 0..n}

\* ------------------------------------------------------- quantity parsing
\* inp is None, a number, or an already-parsed NumberAndUnit
parse_number_and_unit(inp, default_unit) ==
  IF inp.kind = "none" THEN NoneNU
  ELSE IF inp.kind = "nau" THEN NumberAndUnit(inp.number, inp.unit)
  ELSE NumberAndUnit(inp.number, default_unit)

\* ------------------------------------------------- additional components
QtyMultiplierConnector == {"PINCOUNT", "POPULATED", "CONNECTIONS"}
QtyMultiplierCable == {"WIRECOUNT", "TERMINATIONS", "LENGTH", "TOTAL_LENGTH"}

\* str.upper() on the multiplier tokens that are drawn as inputs
Upper(tok) ==
  CASE tok = "pincount" -> "PINCOUNT"
    [] tok = "populated" -> "POPULATED"
    [] tok = "connections" -> "CONNECTIONS"
    [] tok = "wirecount" -> "WIRECOUNT"
    [] tok = "terminations" -> "TERMINATIONS"
    [] tok = "length" -> "LENGTH"
    [] tok = "total_length" -> "TOTAL_LENGTH"
    [] tok = "bogus" -> "BOGUS"
    [] OTHER -> tok

\* item.qty_multiplier is [isnum |-> TRUE, num |-> n] or [isnum |-> FALSE, tok |-> s]
\* fill_partnumbers, and the fields parsed before the multiplier is looked at
AdditionalComponent_fields(item) ==
  [type |-> item.type, subtype |-> item.subtype,
   partnumbers |-> PartNumberInfo(item.pn, None, None, None, None),
   qty |-> parse_number_and_unit(item.qty, None),
   amount |-> parse_number_and_unit(item.amount, None),
   sum_amounts_in_bom |-> item.sum_amounts_in_bom,
   _qty_multiplier_computed |-> 1]

\* mutant: a token that names no multiplier is taken as the default multiplier 1
AdditionalComponent_post_init_lenient(item) ==
  LET m == item.qty_multiplier
      base == AdditionalComponent_fields(item)
  IN IF m.isnum
       THEN Ok(base @@ [qty_multiplier |-> [kind |-> "num", name |-> "", num |-> m.num]])
     ELSE IF Upper(m.tok) \in QtyMultiplierConnector
       THEN Ok(base @@ [qty_multiplier |-> [kind |-> "connector", name |-> Upper(m.tok), num |-> 0]])
     ELSE IF Upper(m.tok) \in QtyMultiplierCable
       THEN Ok(base @@ [qty_multiplier |-> [kind |-> "cable", name |-> Upper(m.tok), num |-> 0]])
     ELSE Ok(base @@ [qty_multiplier |-> [kind |-> "num", name |-> "", num |-> 1]])

AdditionalComponent_post_init(item) ==
  LET m == item.qty_multiplier
      base == AdditionalComponent_fields(item)
  IN IF m.isnum
       THEN Ok(base @@ [qty_multiplier |-> [kind |-> "num", name |-> "", num |-> m.num]])
     ELSE IF Upper(m.tok) \in QtyMultiplierConnector
       THEN Ok(base @@ [qty_multiplier |-> [kind |-> "connector", name |-> Upper(m.tok), num |-> 0]])
     ELSE IF Upper(m.tok) \in QtyMultiplierCable
       THEN Ok(base @@ [qty_multiplier |-> [kind |-> "cable", name |-> Upper(m.tok), num |-> 0]])
     ELSE Failed("Unknown qty multiplier")

AdditionalComponent_bom_qty(sub) == sub.qty.number * sub._qty_multiplier_computed

\* for i, item in enumerate(self.additional_components): ... AdditionalComponent(**item)
RECURSIVE BuildAdditional(_, _)
BuildAdditional(items, done) ==
  IF items = <<>> THEN Ok(done)
  ELSE LET r == AdditionalComponent_post_init(Head(items))
       IN IF r.ok THEN BuildAdditional(Tail(items), Append(done, r.obj))
          ELSE r

\* -------------------------------------------------------------- connector
PinClass(index, id, label, color, parent, anonymous, simple) ==
  [index |-> index, id |-> id, label |-> label, color |-> color,
   parent |-> parent, _num_connections |-> 0,
   _anonymous |-> anonymous, _simple |-> simple]

\* mutant: a call that is not a connection clears the pin's connection count
activate_pin_clear(self, pin_id, side, is_connection) ==
  IF pin_id \notin DOMAIN self.pin_objects
    THEN Failed("KeyError")
  ELSE Ok([self EXCEPT !.pin_objects[pin_id]._num_connections =
             IF is_connection THEN @ + 1 ELSE 0])

\* mutant: activating a pin invalidates the multipliers resolved before
activate_pin_invalidate(self, pin_id, side, is_connection) ==
  IF is_connection /\ pin_id \notin DOMAIN self.pin_objects
    THEN Failed("KeyError")
  ELSE Ok([self EXCEPT
             !.pin_objects = IF is_connection
                               THEN [@ EXCEPT ![pin_id]._num_connections = @ + 1]
                               ELSE @,
             !.additional_components =
                [i \in DOMAIN @ |-> [@[i] EXCEPT !._qty_multiplier_computed = 1]]])

\* mutant: a connection to a pin the connector does not have is ignored
activate_pin_ignore_unknown(self, pin_id, side, is_connection) ==
  LET s1 == IF is_connection /\ pin_id \in DOMAIN self.pin_objects
              THEN [self EXCEPT !.pin_objects[pin_id]._num_connections = @ + 1]
              ELSE self
  IN Ok(IF side = "LEFT" THEN [s1 EXCEPT !.ports_left = TRUE]
        ELSE IF side = "RIGHT" THEN [s1 EXCEPT !.ports_right = TRUE]
        ELSE s1)

activate_pin(self, pin_id, side, is_connection) ==
  IF is_connection /\ pin_id \notin DOMAIN self.pin_objects
    THEN Failed("KeyError")
  ELSE
    LET s1 == IF is_connection
                THEN [self EXCEPT !.pin_objects[pin_id]._num_connections = @ + 1]
                ELSE self
        s2 == IF side = "LEFT" THEN [s1 EXCEPT !.ports_left = TRUE]
              ELSE IF side = "RIGHT" THEN [s1 EXCEPT !.ports_right = TRUE]
              ELSE s1
    IN Ok(s2)

\* for loop in self.loops: ...
RECURSIVE RegisterLoops(_, _)
RegisterLoops(self, loops) ==
  IF loops = <<>> THEN Ok(self)
  ELSE LET loop == Head(loops) IN
    IF Len(loop) # 2 THEN Failed("Loops must be between exactly two pins!")
    ELSE LET r1 == activate_pin(self, loop[1], "None", TRUE) IN
      IF ~r1.ok THEN r1
      ELSE LET r2 == activate_pin(r1.obj, loop[2], "None", TRUE) IN
        IF ~r2.ok THEN r2
        ELSE RegisterLoops(r2.obj, Tail(loops))

SimplePincountCheck(a) == a.style = "simple" /\ a.pincount # NoCount /\ a.pincount > 1

\* mutant: the designator of a simple connector is shown like any other
DefaultShowName_any_style(a) == ~is_autogenerated(a.designator)

DefaultShowName(a) == a.style # "simple" /\ ~is_autogenerated(a.designator)

DefaultShowPincount(a) == a.style # "simple"

\* the pin_objects dict after the enumerate(zip_longest(...)) loop: a later
\* assignment to the same key replaces the earlier entry
PinObjects(a, pins) ==
  LET n == Max2(Len(pins), Max2(Len(a.pinlabels), Len(a.pincolors)))
      idAt(i) == Pad(pins, i, NoneId)
      last(k) == CHOOSE i \in 1..n : idAt(i) = k /\ \A j \in 1..n : idAt(j) = k => j <= i
  IN [k \in {idAt(i) : i \in 1..n} |->
        PinClass(last(k) - 1, k, Pad(a.pinlabels, last(k), None),
                 Pad(a.pincolors, last(k), None), a.designator,
                 is_autogenerated(a.designator), a.style = "simple")]

Connector_post_init(a) ==
  IF SimplePincountCheck(a)
    THEN Failed("Connectors with style set to simple may only have one pin")
  ELSE
    LET pc1 == IF a.style = "simple" THEN 1 ELSE a.pincount
        pc2 == IF pc1 = NoCount
                 THEN Max2(Len(a.pins), Max2(Len(a.pinlabels), Len(a.pincolors)))
                 ELSE pc1
    IN IF pc2 = NoCount THEN Failed("You need to specify at least one")
       ELSE
         LET pins == IF a.pins = <<>> THEN [i \in 1..pc2 |-> i] ELSE a.pins IN
         IF Len(pins) # Cardinality(Range(pins)) THEN Failed("Pins are not unique")
         ELSE
           LET self0 == [exists |-> TRUE,
                         designator |-> a.designator,
                         style |-> a.style,
                         pincount |-> pc2,
                         pins |-> pins,
                         pinlabels |-> a.pinlabels,
                         pincolors |-> a.pincolors,
                         type |-> a.type,
                         partnumbers |-> PartNumberInfo(a.pn, None, None, None, None),
                         qty |-> NumberAndUnit(1, None),
                         amount |-> NoneNU,
                         sum_amounts_in_bom |-> a.sum_amounts_in_bom,
                         pin_objects |-> PinObjects(a, pins),
                         loops |-> a.loops,
                         ports_left |-> FALSE,
                         ports_right |-> FALSE,
                         show_name |-> IF a.show_name = {} THEN DefaultShowName(a)
                                       ELSE TRUE \in a.show_name,
                         show_pincount |-> IF a.show_pincount = {} THEN DefaultShowPincount(a)
                                           ELSE TRUE \in a.show_pincount,
                         additional_components |-> <<>>]
               r == RegisterLoops(self0, a.loops)
           IN IF ~r.ok THEN r
              ELSE LET subs == BuildAdditional(a.additional_components, <<>>) IN
                IF ~subs.ok THEN subs
                ELSE Ok([r.obj EXCEPT !.additional_components = subs.obj])

num_populated_pins(self) ==
  Cardinality({k \in DOMAIN self.pin_objects : self.pin_objects[k]._num_connections > 0})

num_connections(self) ==
  SumOver([k \in DOMAIN self.pin_objects |-> self.pin_objects[k]._num_connections],
          DOMAIN self.pin_objects)

\* mutant: POPULATED counts every pin, connected or not
Connector_qty_multipliers_all_pins(self, name) ==
  CASE name = "PINCOUNT" -> self.pincount
    [] name = "POPULATED" -> Cardinality(DOMAIN self.pin_objects)
    [] name = "CONNECTIONS" -> num_connections(self)

Connector_qty_multipliers_computed(self, name) ==
  CASE name = "PINCOUNT" -> self.pincount
    [] name = "POPULATED" -> num_populated_pins(self)
    [] name = "CONNECTIONS" -> num_connections(self)

\* for subitem in self.additional_components: ... (subitems i.. still to do)
RECURSIVE Connector_resolve(_, _, _)
Connector_resolve(self, subs, i) ==
  IF i > Len(subs) THEN Ok([self EXCEPT !.additional_components = subs])
  ELSE LET m == subs[i].qty_multiplier IN
    IF m.kind = "connector"
      THEN Connector_resolve(self,
             [subs EXCEPT ![i]._qty_multiplier_computed =
                Connector_qty_multipliers_computed(self, m.name)], i + 1)
    ELSE IF m.kind = "cable"
      THEN [ok |-> FALSE, err |-> "Used a cable multiplier in a connector!",
            obj |-> [self EXCEPT !.additional_components = subs]]
    ELSE Connector_resolve(self,
           [subs EXCEPT ![i]._qty_multiplier_computed = m.num], i + 1)

Connector_compute_qty_multipliers(self) ==
  Connector_resolve(self, self.additional_components, 1)


\* ------------------------------------------------------------------ cable
\* color-code tables of wv_colors (an external collaborator)
COLOR_CODES == [DIN |-> <<"WH", "BN", "GN">>]

get_color_by_colorcode_index(color_code, i) ==
  COLOR_CODES[color_code][(i % Len(COLOR_CODES[color_code])) + 1]

Truthy(shield) == IF shield.isstr THEN shield.s # "" ELSE shield.b

Scalar(v) == [islist |-> FALSE, val |-> v]
ListOf(l) == [islist |-> TRUE, val |-> l]

\* _get_correct_element: inp[idx] if isinstance(inp, List) else inp  (idx 0-based)
InRange(inp, idx) == ~inp.islist \/ idx + 1 <= Len(inp.val)

\* mutant: every wire takes the first element of a list
get_correct_element_first(inp, idx) == IF inp.islist THEN Scalar(inp.val[1]) ELSE inp

get_correct_element(inp, idx) == IF inp.islist THEN Scalar(inp.val[idx + 1]) ELSE inp

PartFields(a) == <<a.manufacturer, a.mpn, a.supplier, a.spn, a.pn>>

get_wire_partnumber(a, idx) ==
  IF a.category = "bundle"
    THEN PartNumberInfo(get_correct_element(a.pn, idx),
                        get_correct_element(a.manufacturer, idx),
                        get_correct_element(a.mpn, idx),
                        get_correct_element(a.supplier, idx),
                        get_correct_element(a.spn, idx))
    ELSE NoPartnumbers

\* IndexError of _get_wire_partnumber on a bundle wire beyond a list's end
WirePartnumberRaises(a, idx) ==
  a.category = "bundle" /\ \E i \in 1..Len(PartFields(a)) : ~InRange(PartFields(a)[i], idx)

WireClass(parent, index, id, label, color, type, length, sum_amounts_in_bom, partnumbers) ==
  [cls |-> "WireClass", parent |-> parent, index |-> index, id |-> id,
   label |-> label, color |-> color, type |-> type, length |-> length,
   sum_amounts_in_bom |-> sum_amounts_in_bom, partnumbers |-> partnumbers]

ShieldClass(parent, index, id, label, color) ==
  [cls |-> "ShieldClass", parent |-> parent, index |-> index, id |-> id,
   label |-> label, color |-> color, type |-> None, length |-> NoneNU,
   sum_amounts_in_bom |-> TRUE, partnumbers |-> NoPartnumbers]

\* the colors list and wirecount after the wirecount/colors/color_code branch
CableColors(a) ==
  IF a.wirecount # NoCount
    THEN IF a.colors # <<>>
           THEN Ok([colors |-> [i \in 1..a.wirecount |->
                                  a.colors[((i - 1) % Len(a.colors)) + 1]],
                    wirecount |-> a.wirecount])
         ELSE IF a.color_code # None /\ a.color_code # ""
           THEN IF a.color_code \notin DOMAIN COLOR_CODES
                  THEN Failed("Unknown color code")
                  ELSE Ok([colors |-> [i \in 1..a.wirecount |->
                                         get_color_by_colorcode_index(a.color_code, i - 1)],
                           wirecount |-> a.wirecount])
         ELSE Ok([colors |-> [i \in 1..a.wirecount |-> ""], wirecount |-> a.wirecount])
  ELSE IF a.colors = <<>>
    THEN Failed("Unknown number of wires")
    ELSE Ok([colors |-> a.colors, wirecount |-> Len(a.colors)])

\* for idfield in [manufacturer, mpn, supplier, spn, pn]: if isinstance(idfield, list): ...
PartListError(a, wirecount) ==
  LET bad == {i \in 1..Len(PartFields(a)) :
                PartFields(a)[i].islist /\
                (a.category # "bundle" \/ Len(PartFields(a)[i].val) # wirecount)}
  IN IF bad = {} THEN ""
     ELSE LET i == CHOOSE j \in bad : \A k \in bad : j <= k IN
       IF a.category = "bundle" THEN "lists of part data must match wirecount"
       ELSE "lists of part data are only supported for bundles"

Cable_post_init(a) ==
  LET length == parse_number_and_unit(a.length, "m")
      c == CableColors(a)
  IN IF ~c.ok THEN c
     ELSE IF a.wirelabels # <<>> /\ Truthy(a.shield) /\ "s" \in Range(a.wirelabels)
       THEN Failed("s may not be used as a wire label for a shielded cable.")
     ELSE IF PartListError(a, c.obj.wirecount) # ""
       THEN Failed(PartListError(a, c.obj.wirecount))
     ELSE
       LET colors == c.obj.colors
           n == Max2(Len(colors), Len(a.wirelabels))
       IN IF \E i \in 1..n : WirePartnumberRaises(a, i - 1) THEN Failed("IndexError")
          ELSE
            LET wires == [id \in 1..n |->
                            WireClass(a.designator, id - 1, id, Pad(a.wirelabels, id, None),
                                      Pad(colors, id, None), a.type, length,
                                      a.sum_amounts_in_bom, get_wire_partnumber(a, id - 1))]
                shield == [id \in {ShieldId} |->
                             ShieldClass(a.designator, n, ShieldId, "Shield",
                                         IF a.shield.isstr THEN a.shield.s ELSE None)]
                subs == BuildAdditional(a.additional_components, <<>>)
            IN IF ~subs.ok THEN subs
               ELSE Ok([exists |-> TRUE,
                        designator |-> a.designator,
                        category |-> a.category,
                        wirecount |-> c.obj.wirecount,
                        shield |-> a.shield,
                        colors |-> colors,
                        wirelabels |-> a.wirelabels,
                        type |-> a.type,
                        qty |-> a.qty,
                        length |-> length,
                        amount |-> length,
                        sum_amounts_in_bom |-> a.sum_amounts_in_bom,
                        partnumbers |-> PartNumberInfo(a.pn, a.manufacturer, a.mpn,
                                                       a.supplier, a.spn),
                        wire_objects |-> IF Truthy(a.shield) THEN wires @@ shield ELSE wires,
                        _connections |-> <<>>,
                        show_name |-> ~is_autogenerated(a.designator),
                        show_wirenumbers |-> a.category # "bundle",
                        additional_components |-> subs.obj])

Connection(from_, via, to) == [from_ |-> from_, via |-> via, to |-> to]

\* mutant: the new connection is put before the recorded ones
connect_prepend(self, from_pin_obj, via_wire_id, to_pin_obj) ==
  IF via_wire_id \notin DOMAIN self.wire_objects THEN Failed("KeyError")
  ELSE Ok([self EXCEPT !._connections =
             <<Connection(from_pin_obj, self.wire_objects[via_wire_id], to_pin_obj)>> \o @])

connect(self, from_pin_obj, via_wire_id, to_pin_obj) ==
  IF via_wire_id \notin DOMAIN self.wire_objects THEN Failed("KeyError")
  ELSE Ok([self EXCEPT !._connections =
             Append(@, Connection(from_pin_obj, self.wire_objects[via_wire_id], to_pin_obj))])

total_length(self) ==
  SumOver([k \in DOMAIN self.wire_objects |->
             IF self.wire_objects[k].length.isnone THEN 0
             ELSE self.wire_objects[k].length.number],
          DOMAIN self.wire_objects)

Cable_qty_multipliers_computed(self, name) ==
  CASE name = "WIRECOUNT" -> Cardinality(DOMAIN self.wire_objects)
    [] name = "TERMINATIONS" -> TERMINATIONS_VALUE
    [] name = "LENGTH" -> IF self.length.isnone THEN 0 ELSE self.length.number
    [] name = "TOTAL_LENGTH" -> total_length(self)

\* for subitem in self.additional_components: ... (subitems i.. still to do)
RECURSIVE Cable_resolve(_, _, _)
Cable_resolve(self, subs, i) ==
  IF i > Len(subs) THEN Ok([self EXCEPT !.additional_components = subs])
  ELSE LET m == subs[i].qty_multiplier
           stop(err) == [ok |-> FALSE, err |-> err,
                         obj |-> [self EXCEPT !.additional_components = subs]]
       IN
    IF m.kind = "cable"
      THEN LET factor == Cable_qty_multipliers_computed(self, m.name) IN
        IF m.name \in {"LENGTH", "TOTAL_LENGTH"}
          THEN IF subs[i].qty.unit # None
                 THEN stop("No unit may be specified when using a length multiplier")
               ELSE IF self.length.isnone
                 THEN stop("AttributeError")
               ELSE Cable_resolve(self,
                      [subs EXCEPT ![i].qty = NumberAndUnit(@.number, self.length.unit),
                                   ![i]._qty_multiplier_computed = factor], i + 1)
          ELSE Cable_resolve(self,
                 [subs EXCEPT ![i]._qty_multiplier_computed = factor], i + 1)
    ELSE IF m.kind = "connector"
      THEN stop("Used a connector multiplier in a cable!")
    ELSE Cable_resolve(self,
           [subs EXCEPT ![i]._qty_multiplier_computed = m.num], i + 1)

Cable_compute_qty_multipliers(self) ==
  Cable_resolve(self, self.additional_components, 1)


\* -------------------------------------------------------------------- BOM
\* the NumberAndUnit(None, None) returned by bom_amount
NullAmount == [isnone |-> FALSE, isnull |-> TRUE]

BomHash(description, qty_unit, amount, partnumbers) ==
  [description |-> description, qty_unit |-> qty_unit, amount |-> amount,
   partnumbers |-> partnumbers]

\* a description is given by the substrings it is joined from; "" and None
\* substrings are left out of the string, and stand here as None
Shown(s) == IF s = "" THEN None ELSE s

AdditionalComponent_description(self) ==
  [cls |-> "", type |-> self.type, subtype |-> Shown(self.subtype)]

Connector_description(self) ==
  [cls |-> "Connector", type |-> Shown(self.type),
   pins |-> IF self.show_pincount THEN self.pincount ELSE NoCount]

\* a cable without gauge: "<wirecount> wires", and "shielded" if it has a shield
Cable_description(self) ==
  [cls |-> "Cable", type |-> Shown(self.type), wirecount |-> self.wirecount,
   shielded |-> Truthy(self.shield)]

\* a wire without subtype and gauge
WireClass_description(self) ==
  [cls |-> "Wire", type |-> Shown(self.type), color |-> Shown(self.color)]

\* mutant: the unit of the amount is left out of the key of summed items
Component_bom_hash_no_unit(self, description) ==
  IF self.sum_amounts_in_bom
    THEN BomHash(description, None, NoneNU, self.partnumbers)
    ELSE BomHash(description, self.qty.unit, self.amount, self.partnumbers)

Component_bom_hash(self, description) ==
  IF self.sum_amounts_in_bom
    THEN BomHash(description, IF self.amount.isnone THEN None ELSE self.amount.unit,
                 NoneNU, self.partnumbers)
    ELSE BomHash(description, self.qty.unit, self.amount, self.partnumbers)

\* mutant: the amount is multiplied in whether or not amounts are summed
Component_bom_qty_always_amount(self) ==
  IF ~self.amount.isnone THEN self.qty.number * self.amount.number ELSE self.qty.number

Component_bom_qty(self) ==
  IF self.sum_amounts_in_bom
    THEN IF ~self.amount.isnone THEN self.qty.number * self.amount.number
         ELSE self.qty.number
    ELSE self.qty.number

Component_bom_amount(self) ==
  IF self.sum_amounts_in_bom THEN NullAmount ELSE self.amount

WireClass_bom_hash(self) ==
  IF self.sum_amounts_in_bom
    THEN BomHash(WireClass_description(self),
                 IF self.length.isnone THEN None ELSE self.length.unit,
                 NoneNU, self.partnumbers)
    ELSE BomHash(WireClass_description(self), None, self.length, self.partnumbers)

Cable_bom_hash(self) ==
  IF self.category = "bundle" THEN Failed("Do this at the wire level!")
  ELSE Ok(Component_bom_hash(self, Cable_description(self)))

\* an object handed to the BOM: its class and the object
BomItem(cls, obj) == [cls |-> cls, obj |-> obj]

\* item.bom_hash, by the class of the item
bom_hash(item) ==
  CASE item.cls = "AdditionalComponent"
         -> Ok(Component_bom_hash(item.obj, AdditionalComponent_description(item.obj)))
    [] item.cls = "Connector"
         -> Ok(Component_bom_hash(item.obj, Connector_description(item.obj)))
    [] item.cls = "Cable" -> Cable_bom_hash(item.obj)
    [] item.cls = "WireClass" -> Ok(WireClass_bom_hash(item.obj))

\* item.bom_qty: a wire has no such attribute
bom_qty(item) ==
  CASE item.cls = "AdditionalComponent" -> Ok(AdditionalComponent_bom_qty(item.obj))
    [] item.cls \in {"Connector", "Cable"} -> Ok(Component_bom_qty(item.obj))
    [] item.cls = "WireClass" -> Failed("AttributeError")

\* item.bom_amount(): a wire has no such method
bom_amount(item) ==
  CASE item.cls \in {"AdditionalComponent", "Connector", "Cable"}
         -> Ok(Component_bom_amount(item.obj))
    [] item.cls = "WireClass" -> Failed("AttributeError")

\* ----------------------------------------------------------------- inputs
Sides == {"None", "LEFT", "RIGHT"}

Qty(number, unit) == [kind |-> "nau", number |-> number, unit |-> unit]
Num(number) == [kind |-> "num", number |-> number]
NoInput == [kind |-> "none"]

\* the attributes of an additional component that are left at their defaults
ItemDefaults ==
  [type |-> "x", subtype |-> None, pn |-> None, amount |-> NoInput,
   sum_amounts_in_bom |-> TRUE]

Item(tok, qty) ==
  ItemDefaults @@ [qty |-> qty, qty_multiplier |-> [isnum |-> FALSE, tok |-> tok, num |-> 0]]
NumItem(n, qty) ==
  ItemDefaults @@ [qty |-> qty, qty_multiplier |-> [isnum |-> TRUE, tok |-> "", num |-> n]]

CableSubItems ==
  {Item(t, Qty(2, None)) : t \in {"wirecount", "TERMINATIONS", "length", "total_length", "pincount"}}
    \cup {Item(t, Qty(1, "pcs")) : t \in {"length", "total_length"}}
    \cup {NumItem(3, Qty(2, None))}

\* subsequences of s (as the set of index sets they keep), in the order of s
RECURSIVE Pick(_, _)
Pick(s, keep) ==
  IF s = <<>> THEN <<>>
  ELSE (IF Len(s) \in keep THEN Pick(SubSeq(s, 1, Len(s) - 1), keep) \o <<s[Len(s)]>>
        ELSE Pick(SubSeq(s, 1, Len(s) - 1), keep))

SubSeqsUpTo(s, n) == {Pick(s, keep) : keep \in {k \in SUBSET (1..Len(s)) : Cardinality(k) <= n}}

ConnectorSubLists ==
  SubSeqsUpTo(<<Item("pincount", Qty(2, None)), Item("POPULATED", Qty(2, None)),
                Item("wirecount", Qty(2, None)), Item("connections", Qty(2, None)),
                NumItem(3, Qty(2, None))>>, MaxSub)

\* loop entries: every pair of pin ids, an entry of one pin and one of three
LoopEntries == [1..2 -> 1..MaxPinId] \cup {<<1>>, <<1, 2, 1>>}
LoopLists == SeqsUpTo(LoopEntries, MaxLoops)

ConnectorDefaults ==
  [designator |-> "X1", style |-> None, pincount |-> NoCount, pins |-> <<>>,
   pinlabels |-> <<>>, pincolors |-> <<>>, loops |-> <<>>,
   additional_components |-> <<>>, show_name |-> {}, show_pincount |-> {},
   type |-> None, pn |-> None, sum_amounts_in_bom |-> TRUE]

\* every combination of style, pincount, pins, pinlabels and pincolors
ConnectorPinInputs ==
  {[ConnectorDefaults EXCEPT !.style = st, !.pincount = pc, !.pins = ps,
                             !.pinlabels = pl, !.pincolors = pcl] :
     st \in {None, "simple"}, pc \in 0..MaxPins,
     ps \in SeqsUpTo(1..MaxPinId, MaxPinList), pl \in SeqsUpTo({"A"}, MaxPinList),
     pcl \in SeqsUpTo({"RD"}, MaxPinList)}

ConnectorLoopInputs ==
  {[ConnectorDefaults EXCEPT !.style = st, !.pincount = pc, !.loops = l] :
     st \in {None, "simple"}, pc \in 1..MaxPins, l \in LoopLists}

ConnectorShowInputs ==
  {[ConnectorDefaults EXCEPT !.designator = d, !.style = st, !.pincount = pc,
                             !.show_name = sn, !.show_pincount = sp,
                             !.additional_components = ac] :
     d \in {"X1", "AUTOGENERATED_X2"}, st \in {None, "simple"}, pc \in {NoCount, 1},
     sn \in SUBSET {TRUE} \cup {{FALSE}}, sp \in SUBSET {TRUE} \cup {{FALSE}},
     ac \in {<<>>, <<Item("bogus", Qty(1, None))>>, <<Item("pincount", Num(2))>>}}

ConnectorInputs == ConnectorPinInputs \cup ConnectorLoopInputs \cup ConnectorShowInputs

\* connectors whose pins are then activated and whose multipliers are resolved:
\* three pins with every list of subitems; a looped one; one with a pin list
\* shorter than its pincount
ConnectorResolveInputs ==
  {[ConnectorDefaults EXCEPT !.pincount = 3, !.additional_components = ac] :
     ac \in ConnectorSubLists}
  \cup
  {[ConnectorDefaults EXCEPT !.pincount = pc, !.pins = ps, !.loops = l,
                             !.additional_components =
                               <<Item("pincount", Qty(2, None)),
                                 Item("POPULATED", Qty(2, None)),
                                 Item("connections", Qty(2, None))>>] :
     pc \in {NoCount, 3}, ps \in {<<2, 1>>}, l \in {<<>>, <<<<1, 2>>>>}}

ConnectorHarnessInputs ==
  {[ConnectorDefaults EXCEPT !.pincount = 2, !.loops = <<<<1, 2>>>>,
                             !.additional_components = <<Item("connections", Qty(2, None))>>]}

CableDefaults ==
  [designator |-> "W1", category |-> None, wirecount |-> NoCount,
   shield |-> [isstr |-> FALSE, b |-> FALSE, s |-> ""], colors |-> <<>>,
   color_code |-> None, wirelabels |-> <<>>, length |-> NoInput,
   sum_amounts_in_bom |-> TRUE, type |-> None, qty |-> NumberAndUnit(1, None),
   pn |-> Scalar(None), manufacturer |-> Scalar(None), mpn |-> Scalar(None),
   supplier |-> Scalar(None), spn |-> Scalar(None),
   additional_components |-> <<>>]

Shields ==
  {[isstr |-> FALSE, b |-> b, s |-> ""] : b \in BOOLEAN}
    \cup {[isstr |-> TRUE, b |-> FALSE, s |-> "RD"]}

\* every combination of wirecount, colors, color_code, wirelabels and shield
CableWireInputs ==
  {[CableDefaults EXCEPT !.wirecount = wc, !.shield = sh, !.colors = cs, !.color_code = cc,
                         !.wirelabels = wl, !.length = len] :
     wc \in 0..MaxWires, sh \in Shields, cs \in SeqsUpTo({"RD", "BK"}, MaxWires),
     cc \in {None, "DIN", "BOGUS"}, wl \in SeqsUpTo({"A", "s"}, MaxWires),
     len \in {NoInput, Num(2)}}

CablePartInputs ==
  {[CableDefaults EXCEPT !.category = cat, !.wirecount = wc, !.wirelabels = wl,
                         !.manufacturer = mf, !.pn = pn] :
     cat \in {None, "bundle"}, wc \in 1..MaxWires, wl \in SeqsUpTo({"A"}, MaxWires),
     mf \in {Scalar(None), Scalar("M")} \cup {ListOf(l) : l \in SeqsUpTo({"A", "B"}, MaxWires)},
     pn \in {Scalar(None)} \cup {ListOf([i \in 1..k |-> "P"]) : k \in 1..MaxWires}}

CableInputs == CableWireInputs \cup CablePartInputs

\* cables whose multipliers are then resolved
CableResolveInputs ==
  {[CableDefaults EXCEPT !.wirecount = wc, !.shield = sh, !.length = len,
                         !.additional_components = ac] :
     wc \in 1..MaxWires, sh \in {s \in Shields : ~s.isstr},
     len \in {NoInput, Num(2), Qty(3, "cm")},
     ac \in SeqsUpTo(CableSubItems, MaxSub)}

CableHarnessInputs ==
  {[CableDefaults EXCEPT !.wirecount = 1, !.shield = [isstr |-> FALSE, b |-> TRUE, s |-> ""],
                         !.length = Num(2),
                         !.additional_components = <<Item("wirecount", Qty(2, None))>>]}

\* one component with subitems of every multiplier token, a token that names
\* no multiplier, and a number
MultiplierItems ==
  {Item(t, Qty(2, None)) :
     t \in {"pincount", "POPULATED", "connections", "wirecount", "TERMINATIONS",
            "length", "total_length", "bogus"}}
    \cup {NumItem(3, Qty(2, None))}

MultiplierLists == SeqsUpTo(MultiplierItems, MaxSub)

ConnectorMultiplierInputs ==
  {[ConnectorDefaults EXCEPT !.pincount = 2, !.additional_components = ac] :
     ac \in MultiplierLists}

CableMultiplierInputs ==
  {[CableDefaults EXCEPT !.wirecount = 2, !.length = Num(2), !.additional_components = ac] :
     ac \in MultiplierLists}

\* amounts and lengths: none, or a number with or without a unit
Amounts ==
  {NoInput} \cup {Num(n) : n \in 1..MaxAmount}
    \cup {Qty(n, u) : n \in 1..MaxAmount, u \in {"m", "cm"}}

\* the objects handed to the BOM: additional components, connectors, cables
\* and the wires (and shields) of the cables
BomSubInputs ==
  {[Item("pincount", q) EXCEPT !.type = t, !.pn = pn, !.amount = am,
                               !.sum_amounts_in_bom = sm] :
     t \in {"x", "y"}, pn \in {None, "P"}, q \in {Qty(1, None), Qty(1, "pcs")},
     am \in Amounts, sm \in BOOLEAN}

ConnectorBomInputs ==
  {[ConnectorDefaults EXCEPT !.pincount = pc, !.show_pincount = sp, !.pn = pn,
                             !.sum_amounts_in_bom = sm] :
     pc \in 1..2, sp \in {{}, {FALSE}}, pn \in {None, "P"}, sm \in BOOLEAN}

CableBomInputs ==
  {[CableDefaults EXCEPT !.category = cat, !.wirecount = 1, !.colors = cs,
                         !.shield = sh, !.length = len, !.manufacturer = mf,
                         !.sum_amounts_in_bom = sm] :
     cat \in {None, "bundle"}, cs \in {<<"RD">>, <<"BK">>},
     sh \in {s \in Shields : ~s.isstr}, len \in Amounts,
     mf \in {Scalar(None), Scalar("M")}, sm \in BOOLEAN}

Constructed(results) == {r.obj : r \in {x \in results : x.ok}}

BomObjects ==
  LET cables == Constructed({Cable_post_init(a) : a \in CableBomInputs}) IN
    {BomItem("AdditionalComponent", o) :
       o \in Constructed({AdditionalComponent_post_init(it) : it \in BomSubInputs})}
    \cup {BomItem("Connector", o) :
            o \in Constructed({Connector_post_init(a) : a \in ConnectorBomInputs})}
    \cup {BomItem("Cable", o) : o \in cables}
    \cup UNION {{BomItem("WireClass", c.wire_objects[k]) : k \in DOMAIN c.wire_objects} :
                  c \in cables}

\* a top-level component with a qty, an amount and subitems that have their own
BomQtySubItems ==
  {[it EXCEPT !.amount = am, !.sum_amounts_in_bom = sm] :
     it \in {Item("length", Qty(2, None)), NumItem(3, Qty(2, None))},
     am \in {NoInput, Qty(5, "m")}, sm \in BOOLEAN}

ConnectorBomQtyInputs ==
  {[ConnectorDefaults EXCEPT !.pincount = 2, !.sum_amounts_in_bom = sm,
                             !.additional_components = ac] :
     sm \in BOOLEAN,
     ac \in SeqsUpTo({NumItem(3, Qty(2, None)),
                      [Item("pincount", Qty(2, None)) EXCEPT !.amount = Qty(5, "m")]}, MaxSub)}

CableBomQtyInputs ==
  {[CableDefaults EXCEPT !.wirecount = 1, !.qty = q, !.length = len,
                         !.sum_amounts_in_bom = sm, !.additional_components = ac] :
     q \in {NumberAndUnit(n, None) : n \in 1..2},
     len \in {NoInput} \cup {Qty(n, "m") : n \in 2..(MaxAmount + 1)},
     sm \in BOOLEAN, ac \in SeqsUpTo(BomQtySubItems, MaxSub)}

\* ---------------------------------------------------------------- actions
\* the last call: its name, the attribute mapping handed to a constructor,
\* whether it returned (ok) or raised (err)
Outcome(op, args, r) ==
  [op |-> op, args |-> args, ok |-> r.ok, err |-> IF r.ok THEN "" ELSE r.err]

Init ==
  /\ connector = NoObject
  /\ cable = NoObject
  /\ outcome = [op |-> "none", args |-> <<>>, ok |-> TRUE, err |-> ""]

\* Connector(**a): a raised exception leaves no object
ConstructConnector(a) ==
  /\ connector = NoObject
  /\ LET r == Connector_post_init(a) IN
       /\ connector' = IF r.ok THEN r.obj ELSE Raised
       /\ outcome' = Outcome("Connector", a, r)
  /\ UNCHANGED cable

NewConnector(Inputs) == \E a \in Inputs : ConstructConnector(a)

\* a pin reference handed to the connector or the cable: <<id>>, or <<>> for None
PinRefs == IF connector.exists THEN {<<k>> : k \in DOMAIN connector.pin_objects} ELSE {}

\* the pin ids handed to activate_pin: those of the connector, and None
PinArgs == IF connector.exists THEN DOMAIN connector.pin_objects \cup {NoneId} ELSE {}

CallActivatePin(pin_id, side, is_connection) ==
  /\ connector.exists
  /\ (is_connection /\ pin_id \in DOMAIN connector.pin_objects)
       => connector.pin_objects[pin_id]._num_connections < MaxConn
  /\ LET r == activate_pin(connector, pin_id, side, is_connection) IN
       /\ connector' = IF r.ok THEN r.obj ELSE connector
       /\ outcome' = Outcome("activate_pin", <<>>, r)
  /\ UNCHANGED cable

ActivatePin ==
  \E pin_id \in PinArgs, side \in Sides, is_connection \in BOOLEAN :
    CallActivatePin(pin_id, side, is_connection)

\* the subitems resolved before an exception keep their new values
ConnectorCompute ==
  /\ connector.exists
  /\ LET r == Connector_compute_qty_multipliers(connector) IN
       /\ connector' = r.obj
       /\ outcome' = Outcome("Connector.compute_qty_multipliers", <<>>, r)
  /\ UNCHANGED cable

ConstructCable(a) ==
  /\ cable = NoObject
  /\ LET r == Cable_post_init(a) IN
       /\ cable' = IF r.ok THEN r.obj ELSE Raised
       /\ outcome' = Outcome("Cable", a, r)
  /\ UNCHANGED connector

NewCable(Inputs) == \E a \in Inputs : ConstructCable(a)

\* the wire ids handed to _connect: those of the cable, and one it does not have
WireArgs ==
  IF cable.exists
    THEN DOMAIN cable.wire_objects \cup {Cardinality(DOMAIN cable.wire_objects) + 1}
    ELSE {}

CallConnect(from_pin_obj, via_wire_id, to_pin_obj) ==
  /\ cable.exists
  /\ Len(cable._connections) < MaxConnections
  /\ LET r == connect(cable, from_pin_obj, via_wire_id, to_pin_obj) IN
       /\ cable' = IF r.ok THEN r.obj ELSE cable
       /\ outcome' = Outcome("_connect", <<>>, r)
  /\ UNCHANGED connector

\* a wire from a pin (or from nothing) whose other end is left open
Connect ==
  \E f \in PinRefs, w \in WireArgs : CallConnect(f, w, <<>>)

CableCompute ==
  /\ cable.exists
  /\ LET r == Cable_compute_qty_multipliers(cable) IN
       /\ cable' = r.obj
       /\ outcome' = Outcome("Cable.compute_qty_multipliers", <<>>, r)
  /\ UNCHANGED connector

\* one component, a connector or a cable, is constructed
NewComponent ==
  /\ connector = NoObject /\ cable = NoObject
  /\ (NewConnector(ConnectorMultiplierInputs) \/ NewCable(CableMultiplierInputs))

Subs(obj) == obj.additional_components

\* the BOM reads the hash, the quantity and the amount of two of its items
BomPair ==
  /\ outcome.op = "none"
  /\ \E x \in BomObjects, y \in BomObjects :
       /\ x.cls = y.cls
       /\ outcome' = [op |-> "bom", args |-> <<x, y>>, ok |-> TRUE, err |-> "",
                      bom_hash |-> <<bom_hash(x), bom_hash(y)>>,
                      bom_qty |-> <<bom_qty(x), bom_qty(y)>>,
                      bom_amount |-> <<bom_amount(x), bom_amount(y)>>]
  /\ UNCHANGED <<connector, cable>>

\* one component whose bom_qty, and that of its subitems, is read
NewBomComponent ==
  /\ connector = NoObject /\ cable = NoObject
  /\ (NewConnector(ConnectorBomQtyInputs) \/ NewCable(CableBomQtyInputs))

\* the top-level component that exists, and its subitems, as BOM items
BomItems ==
  IF connector.exists
    THEN <<BomItem("Connector", connector)>>
           \o [i \in DOMAIN Subs(connector) |->
                 BomItem("AdditionalComponent", Subs(connector)[i])]
  ELSE IF cable.exists
    THEN <<BomItem("Cable", cable)>>
           \o [i \in DOMAIN Subs(cable) |-> BomItem("AdditionalComponent", Subs(cable)[i])]
  ELSE <<>>

BomQty ==
  /\ BomItems # <<>>
  /\ outcome' = [op |-> "bom_qty", args |-> <<>>, ok |-> TRUE, err |-> "",
                 bom_qty |-> [i \in DOMAIN BomItems |-> bom_qty(BomItems[i])]]
  /\ UNCHANGED <<connector, cable>>

\* ---------------------------------------------------------- specifications
\* a harness: one connector and one cable, connected and resolved
Next ==
  \/ NewConnector(ConnectorHarnessInputs)
  \/ ActivatePin
  \/ ConnectorCompute
  \/ NewCable(CableHarnessInputs)
  \/ Connect
  \/ CableCompute

Spec == Init /\ [][Next]_vars

\* construction of a connector from every input
NextConnectorInit == NewConnector(ConnectorInputs)

SpecConnectorInit == Init /\ [][NextConnectorInit]_vars

\* a connector: construction, pin activation and multiplier resolution
NextConnector ==
  \/ NewConnector(ConnectorResolveInputs)
  \/ ActivatePin
  \/ ConnectorCompute

SpecConnector == Init /\ [][NextConnector]_vars

\* construction of a cable from every input
NextCableInit == NewCable(CableInputs)

SpecCableInit == Init /\ [][NextCableInit]_vars

\* a cable: construction and multiplier resolution
NextCable ==
  \/ NewCable(CableResolveInputs)
  \/ CableCompute

SpecCable == Init /\ [][NextCable]_vars


\* one component, a connector or a cable: construction and multiplier resolution
NextComponent ==
  \/ NewComponent
  \/ ConnectorCompute
  \/ CableCompute

SpecComponent == Init /\ [][NextComponent]_vars


\* the BOM: the hash, the quantity and the amount of pairs of items
NextBom == BomPair

SpecBom == Init /\ [][NextBom]_vars

\* a component's quantities in the BOM, before and after the resolution
NextBomQty ==
  \/ NewBomComponent
  \/ ConnectorCompute
  \/ CableCompute
  \/ BomQty

SpecBomQty == Init /\ [][NextBomQty]_vars


\* ------------------------------------------------------------------ claims
Count(obj, k) == obj.pin_objects[k]._num_connections

Wires(obj) == {k \in DOMAIN obj.wire_objects : obj.wire_objects[k].cls = "WireClass"}

Shielded(obj) == Truthy(obj.shield)

\* C1: after a successful construction the connector has exactly pincount
\* pin objects, with distinct ids.
C1_PinsMatchPincount ==
  connector.exists =>
    /\ Cardinality(DOMAIN connector.pin_objects) = connector.pincount
    /\ Cardinality({connector.pin_objects[k].id : k \in DOMAIN connector.pin_objects})
         = Cardinality(DOMAIN connector.pin_objects)

\* C2: after a successful construction the cable has wirecount wire objects,
\* plus one if shielded, and their ids are 1..wirecount, plus "s" if shielded.
C2_WiresMatchWirecount ==
  cable.exists =>
    /\ Cardinality(DOMAIN cable.wire_objects)
         = cable.wirecount + (IF Shielded(cable) THEN 1 ELSE 0)
    /\ DOMAIN cable.wire_objects
         = (1..cable.wirecount) \cup (IF Shielded(cable) THEN {ShieldId} ELSE {})

\* C3: after the cable resolver has run, a WIRECOUNT subitem holds the number
\* of wires (the shield is not a wire) and a TOTAL_LENGTH subitem holds the sum
\* of the lengths of the wires.
C3_WirecountAndTotalLength ==
  (cable.exists /\ outcome.op = "Cable.compute_qty_multipliers" /\ outcome.ok) =>
    \A i \in DOMAIN Subs(cable) :
      LET sub == Subs(cable)[i] IN
        /\ (sub.qty_multiplier.kind = "cable" /\ sub.qty_multiplier.name = "WIRECOUNT")
             => sub._qty_multiplier_computed = Cardinality(Wires(cable))
        /\ (sub.qty_multiplier.kind = "cable" /\ sub.qty_multiplier.name = "TOTAL_LENGTH")
             => sub._qty_multiplier_computed =
                  SumOver([k \in Wires(cable) |->
                             IF cable.wire_objects[k].length.isnone THEN 0
                             ELSE cable.wire_objects[k].length.number], Wires(cable))

\* C4: a resolver invocation that raises leaves every subitem of the parent as
\* it was before the invocation.
C4_FailureIsAtomic ==
  [][/\ (ConnectorCompute /\ ~outcome'.ok) => Subs(connector') = Subs(connector)
     /\ (CableCompute /\ ~outcome'.ok) => Subs(cable') = Subs(cable)]_vars

NoOtherPinAttributes(a) ==
  /\ a.pincount \in {NoCount, 1}
  /\ a.pins = <<>> /\ a.pinlabels = <<>> /\ a.pincolors = <<>> /\ a.loops = <<>>
  /\ a.show_name = {} /\ a.show_pincount = {}
  /\ a.additional_components = <<>>

SimpleConnectorIs(show_name) ==
  (outcome.op = "Connector" /\ outcome.args.style = "simple") =>
    IF outcome.args.pincount > 1 THEN ~outcome.ok /\ ~connector.exists
    ELSE NoOtherPinAttributes(outcome.args) =>
           /\ outcome.ok
           /\ connector.exists
           /\ connector.pincount = 1
           /\ DOMAIN connector.pin_objects = {1}
           /\ connector.pin_objects[1].id = 1
           /\ connector.show_pincount = FALSE
           /\ connector.show_name = show_name

\* C5 as claimed: a simple connector with no other pin attributes has pincount
\* 1, one pin with id 1, show_pincount false and show_name true; with a
\* declared pincount above 1 its construction fails.
C5_SimpleConnector_ShowNameTrue == SimpleConnectorIs(TRUE)

\* C5 as amended: a simple connector with no other pin attributes has pincount
\* 1, one pin with id 1, show_pincount false and show_name false; with a
\* declared pincount above 1 its construction fails.
C5_SimpleConnector == SimpleConnectorIs(FALSE)

C5_Witness ==
  /\ connector.exists /\ outcome.op = "Connector" /\ outcome.ok
  /\ outcome.args.style = "simple" /\ outcome.args.designator = "X1"
  /\ NoOtherPinAttributes(outcome.args)
  /\ connector.pincount = 1 /\ DOMAIN connector.pin_objects = {1}
  /\ connector.pinlabels = <<>> /\ connector.pincolors = <<>> /\ connector.loops = <<>>
  /\ ~connector.show_pincount /\ ~connector.show_name

\* C6: no step (construction, activate_pin, _connect, either resolver) removes
\* a pin or lowers its connection count.
C6_ConnectionCountNeverDecreases ==
  [][connector.exists =>
       /\ connector'.exists
       /\ \A k \in DOMAIN connector.pin_objects :
            /\ k \in DOMAIN connector'.pin_objects
            /\ Count(connector', k) >= Count(connector, k)]_vars

C6_Witness ==
  /\ connector.exists /\ cable.exists
  /\ connector.loops # <<>>
  /\ outcome.op = "activate_pin" /\ outcome.ok
  /\ \E k \in DOMAIN connector.pin_objects : Count(connector, k) = 2
  /\ cable._connections # <<>>

LengthSub(sub) ==
  sub.qty_multiplier.kind = "cable" /\ sub.qty_multiplier.name \in {"LENGTH", "TOTAL_LENGTH"}

LengthUnit(obj) == IF obj.length.isnone THEN None ELSE obj.length.unit

\* C7: the cable resolver fails when a LENGTH/TOTAL_LENGTH subitem carries a
\* unit; when every subitem is a LENGTH/TOTAL_LENGTH one without unit it
\* completes, with or without a declared cable length, and gives each the
\* cable's length unit, keeping its qty number.
C7_LengthUnitInherited ==
  [][CableCompute =>
       /\ (\E i \in DOMAIN Subs(cable) :
             LengthSub(Subs(cable)[i]) /\ Subs(cable)[i].qty.unit # None)
            => ~outcome'.ok
       /\ (\A i \in DOMAIN Subs(cable) :
             LengthSub(Subs(cable)[i]) /\ Subs(cable)[i].qty.unit = None)
            => /\ outcome'.ok
               /\ \A i \in DOMAIN Subs(cable) :
                    /\ Subs(cable')[i].qty.unit = LengthUnit(cable)
                    /\ Subs(cable')[i].qty.number = Subs(cable)[i].qty.number]_vars

\* C8: after the connector resolver has run, a PINCOUNT subitem holds
\* pincount, a POPULATED one the number of pins with a connection, a
\* CONNECTIONS one the sum of the connection counts, a numeric one its number.
C8_ConnectorFactors ==
  (connector.exists /\ outcome.op = "Connector.compute_qty_multipliers" /\ outcome.ok) =>
    \A i \in DOMAIN Subs(connector) :
      LET sub == Subs(connector)[i]
          m == sub.qty_multiplier
          keys == DOMAIN connector.pin_objects
      IN /\ m.kind # "cable"
         /\ (m.kind = "connector" /\ m.name = "PINCOUNT")
              => sub._qty_multiplier_computed = connector.pincount
         /\ (m.kind = "connector" /\ m.name = "POPULATED")
              => sub._qty_multiplier_computed
                   = Cardinality({k \in keys : Count(connector, k) > 0})
         /\ (m.kind = "connector" /\ m.name = "CONNECTIONS")
              => sub._qty_multiplier_computed
                   = SumOver([k \in keys |-> Count(connector, k)], keys)
         /\ m.kind = "num" => sub._qty_multiplier_computed = m.num

\* three pins of which two are connected: PINCOUNT gives 3 and POPULATED 2
C8_Witness ==
  /\ connector.exists /\ outcome.op = "Connector.compute_qty_multipliers" /\ outcome.ok
  /\ connector.pincount = 3 /\ Cardinality(DOMAIN connector.pin_objects) = 3
  /\ Cardinality({k \in DOMAIN connector.pin_objects : Count(connector, k) > 0}) = 2
  /\ Len(Subs(connector)) = 2
  /\ Subs(connector)[1].qty_multiplier.name = "PINCOUNT"
  /\ Subs(connector)[1]._qty_multiplier_computed = 3
  /\ Subs(connector)[2].qty_multiplier.name = "POPULATED"
  /\ Subs(connector)[2]._qty_multiplier_computed = 2

C10_ConnectAppends ==
  [][\A f \in PinRefs, w \in WireArgs :
       (outcome'.op = "_connect" /\ CallConnect(f, w, <<>>)) =>
         /\ IF w \in DOMAIN cable.wire_objects
              THEN /\ outcome'.ok
                   /\ Len(cable'._connections) = Len(cable._connections) + 1
                   /\ SubSeq(cable'._connections, 1, Len(cable._connections))
                        = cable._connections
                   /\ cable'._connections[Len(cable'._connections)]
                        = [from_ |-> f, via |-> cable.wire_objects[w], to |-> <<>>]
              ELSE /\ ~outcome'.ok
                   /\ cable'._connections = cable._connections
         /\ cable'.wire_objects = cable.wire_objects
         /\ connector' = connector]_vars

C10_Witness ==
  /\ cable.exists /\ connector.exists
  /\ outcome.op = "_connect" /\ outcome.ok
  /\ Len(cable._connections) = 2
  /\ cable._connections[1].via.id = ShieldId
  /\ cable._connections[2].via.id = 1
  /\ cable._connections[2].from_ = <<2>>

\* the pin ids a connector declares: its pins list, or 1..pincount
DeclaredPinIds(a) ==
  IF a.pins # <<>> THEN Range(a.pins)
  ELSE IF a.style = "simple" THEN {1}
  ELSE IF a.pincount # NoCount THEN 1..a.pincount
  ELSE 1..Max2(Len(a.pinlabels), Len(a.pincolors))

\* the number of loop ends that name pin k
LoopEnds(loops, k) ==
  Cardinality({<<i, j>> \in (DOMAIN loops) \X (1..2) : loops[i][j] = k})

\* C11: construction fails when a loop entry does not name exactly two pin ids
\* of the connector; after a successful construction every pin has one
\* connection per loop end that names it (2 * |loops| in total) and neither
\* ports_left nor ports_right is set.
C11_LoopRegistration ==
  (outcome.op = "Connector") =>
    LET a == outcome.args
        keys == DOMAIN connector.pin_objects
    IN /\ (\E i \in DOMAIN a.loops :
             \/ Len(a.loops[i]) # 2
             \/ \E j \in DOMAIN a.loops[i] : a.loops[i][j] \notin DeclaredPinIds(a))
            => (~outcome.ok /\ ~connector.exists)
       /\ outcome.ok =>
            /\ \A k \in keys : Count(connector, k) = LoopEnds(a.loops, k)
            /\ SumOver([k \in keys |-> Count(connector, k)], keys) = 2 * Len(a.loops)
            /\ ~connector.ports_left /\ ~connector.ports_right

\* two loops, one of them from a pin to itself
C11_Witness ==
  /\ connector.exists /\ outcome.op = "Connector" /\ outcome.ok
  /\ connector.loops = <<<<1, 2>>, <<2, 2>>>>
  /\ Count(connector, 1) = 1 /\ Count(connector, 2) = 3
  /\ ~connector.ports_left /\ ~connector.ports_right

\* a loop that names a pin the connector does not have: no connector
C11_WitnessRejected ==
  /\ outcome.op = "Connector" /\ ~outcome.ok /\ outcome.err = "KeyError"
  /\ outcome.args.pincount = 1 /\ outcome.args.loops = <<<<1, 2>>>>

\* the subitem declares a multiplier token that belongs to neither set
UnknownToken(item) ==
  /\ ~item.qty_multiplier.isnum
  /\ Upper(item.qty_multiplier.tok) \notin QtyMultiplierConnector \cup QtyMultiplierCable

Scoped(sub, names) ==
  sub.qty_multiplier.kind # "num" /\ sub.qty_multiplier.name \in names

\* C12: the connector resolver fails when a subitem carries a cable-scoped
\* multiplier, the cable resolver fails when a subitem carries a
\* connector-scoped one, and a token that belongs to neither set is rejected
\* when the subitem is constructed (so the parent is not constructed).
C12_MultiplierScope ==
  /\ (outcome.op = "Connector.compute_qty_multipliers"
        /\ \E i \in DOMAIN Subs(connector) : Scoped(Subs(connector)[i], QtyMultiplierCable))
       => ~outcome.ok
  /\ (outcome.op = "Cable.compute_qty_multipliers"
        /\ \E i \in DOMAIN Subs(cable) : Scoped(Subs(cable)[i], QtyMultiplierConnector))
       => ~outcome.ok
  /\ (outcome.op \in {"Connector", "Cable"}
        /\ \E i \in DOMAIN outcome.args.additional_components :
             UnknownToken(outcome.args.additional_components[i]))
       => (~outcome.ok /\ ~connector.exists /\ ~cable.exists)
  /\ \A obj \in {connector, cable} :
       obj.exists => \A i \in DOMAIN Subs(obj) :
         Subs(obj)[i].qty_multiplier.kind \in {"num", "connector", "cable"}

\* a cable whose second subitem carries a connector-scoped multiplier: the
\* resolver raised
C12_Witness ==
  /\ cable.exists /\ outcome.op = "Cable.compute_qty_multipliers" /\ ~outcome.ok
  /\ outcome.err = "Used a connector multiplier in a cable!"
  /\ Len(Subs(cable)) = 2
  /\ Scoped(Subs(cable)[1], {"WIRECOUNT"})
  /\ Scoped(Subs(cable)[2], {"POPULATED"})

C12_WitnessConnector ==
  /\ connector.exists /\ outcome.op = "Connector.compute_qty_multipliers" /\ ~outcome.ok
  /\ \E i \in DOMAIN Subs(connector) : Scoped(Subs(connector)[i], {"TERMINATIONS"})

C12_WitnessUnknown ==
  /\ outcome.op = "Cable" /\ ~outcome.ok /\ outcome.err = "Unknown qty multiplier"
  /\ cable = Raised

\* the amount of a BOM item: a wire's is its length
AmountOf(item) == IF item.cls = "WireClass" THEN item.obj.length ELSE item.obj.amount

AmountUnit(item) == IF AmountOf(item).isnone THEN None ELSE AmountOf(item).unit

QtyUnit(item) == IF item.cls = "WireClass" THEN None ELSE item.obj.qty.unit

\* two items of one class whose hashes can be read and that go by one flag
Comparable(x, y) ==
  /\ outcome.bom_hash[1].ok /\ outcome.bom_hash[2].ok
  /\ x.obj.sum_amounts_in_bom = y.obj.sum_amounts_in_bom

SameIdentity(x, y) ==
  /\ outcome.bom_hash[1].obj.description = outcome.bom_hash[2].obj.description
  /\ x.obj.partnumbers = y.obj.partnumbers

\* the hashes of two comparable items are equal exactly when they have the
\* same description and part numbers and sameAmount(x, y) holds; a component's
\* bom_amount() is null when amounts are summed and its amount otherwise
BomHashRule(sameAmount(_, _)) ==
  (outcome.op = "bom") =>
    LET x == outcome.args[1]
        y == outcome.args[2]
    IN /\ Comparable(x, y) =>
            ((outcome.bom_hash[1].obj = outcome.bom_hash[2].obj)
               <=> (SameIdentity(x, y) /\ sameAmount(x, y)))
       /\ \A i \in 1..2 :
            outcome.bom_amount[i].ok =>
              outcome.bom_amount[i].obj =
                (IF outcome.args[i].obj.sum_amounts_in_bom THEN NullAmount
                 ELSE outcome.args[i].obj.amount)

SameAmountAsClaimed(x, y) ==
  IF x.obj.sum_amounts_in_bom THEN AmountUnit(x) = AmountUnit(y)
  ELSE AmountOf(x) = AmountOf(y)

SameAmountAndQtyUnit(x, y) ==
  IF x.obj.sum_amounts_in_bom THEN AmountUnit(x) = AmountUnit(y)
  ELSE AmountOf(x) = AmountOf(y) /\ QtyUnit(x) = QtyUnit(y)

C13_WitnessWires ==
  /\ outcome.op = "bom"
  /\ outcome.args[1].cls = "WireClass"
  /\ outcome.args[1].obj.sum_amounts_in_bom /\ outcome.args[2].obj.sum_amounts_in_bom
  /\ outcome.args[1].obj.length = NumberAndUnit(1, "m")
  /\ outcome.args[2].obj.length = NumberAndUnit(2, "m")
  /\ outcome.bom_hash[1] = outcome.bom_hash[2]

\* C14: bom_qty of an ordinary component is qty.number * amount.number when
\* amounts are summed and it has an amount, and qty.number otherwise; bom_qty
\* of an additional component is qty.number times the multiplier the resolver
\* stored last (1 before any resolution), whatever its amount and
\* sum_amounts_in_bom are.
C14_BomQty ==
  [][BomQty =>
       LET top == BomItems[1].obj
           subs == Subs(top)
       IN /\ outcome'.bom_qty[1] =
               Ok(IF top.sum_amounts_in_bom /\ ~top.amount.isnone
                    THEN top.qty.number * top.amount.number
                    ELSE top.qty.number)
          /\ \A i \in DOMAIN subs :
               /\ outcome'.bom_qty[i + 1]
                    = Ok(subs[i].qty.number * subs[i]._qty_multiplier_computed)
               /\ outcome.op \in {"Connector", "Cable"}
                    => outcome'.bom_qty[i + 1] = Ok(subs[i].qty.number)
               /\ (outcome.op \in {"Connector.compute_qty_multipliers",
                                   "Cable.compute_qty_multipliers"}
                     /\ outcome.ok /\ subs[i].qty_multiplier.kind = "num")
                    => outcome'.bom_qty[i + 1]
                         = Ok(subs[i].qty.number * subs[i].qty_multiplier.num)]_vars

\* a cable of qty 2 and length 3 m whose amounts are summed: 6; its resolved
\* subitem of qty 2, multiplier 3 and amount 5 m: 6
C14_Witness ==
  /\ cable.exists /\ outcome.op = "bom_qty"
  /\ cable.sum_amounts_in_bom /\ cable.qty.number = 2
  /\ cable.amount = NumberAndUnit(3, "m")
  /\ outcome.bom_qty[1] = Ok(6)
  /\ Len(Subs(cable)) = 1
  /\ Subs(cable)[1].sum_amounts_in_bom
  /\ Subs(cable)[1].amount = NumberAndUnit(5, "m")
  /\ Subs(cable)[1].qty_multiplier.kind = "num"
  /\ Subs(cable)[1]._qty_multiplier_computed = 3
  /\ outcome.bom_qty[2] = Ok(6)

\* a cable whose amounts are not summed: its bom_qty is its qty alone
C14_WitnessNotSummed ==
  /\ cable.exists /\ outcome.op = "bom_qty"
  /\ ~cable.sum_amounts_in_bom /\ cable.qty.number = 2
  /\ cable.amount = NumberAndUnit(3, "m")
  /\ outcome.bom_qty[1] = Ok(2)

PartFieldNames == {"pn", "manufacturer", "mpn", "supplier", "spn"}

\* the wirecount a cable is constructed with: declared, or the number of colors
DeclaredWirecount(a) == IF a.wirecount # NoCount THEN a.wirecount ELSE Len(a.colors)

\* C15: constructing a cable with a list-valued part-number field fails if the
\* cable is not a bundle, and fails if it is a bundle and the length of the
\* list differs from wirecount; in a constructed bundle wire i carries element
\* i-1 (0-based) of each list-valued field and each scalar field as given.
C15_PartNumberLists ==
  (outcome.op = "Cable") =>
    LET a == outcome.args IN
      /\ (\E f \in PartFieldNames : a[f].islist /\ a.category # "bundle")
           => (~outcome.ok /\ ~cable.exists)
      /\ (\E f \in PartFieldNames :
            a[f].islist /\ a.category = "bundle" /\ Len(a[f].val) # DeclaredWirecount(a))
           => (~outcome.ok /\ ~cable.exists)
      /\ (outcome.ok /\ a.category = "bundle") =>
           \A i \in Wires(cable), f \in PartFieldNames :
             /\ ~cable.wire_objects[i].partnumbers.isnone
             /\ cable.wire_objects[i].partnumbers[f] =
                  (IF a[f].islist THEN Scalar(a[f].val[i]) ELSE a[f])

\* a bundle of two wires with a list of manufacturers, a list of part numbers
\* and scalars for the rest
C15_Witness ==
  /\ cable.exists /\ outcome.op = "Cable" /\ outcome.ok
  /\ cable.category = "bundle" /\ cable.wirecount = 2
  /\ outcome.args.manufacturer = ListOf(<<"A", "B">>)
  /\ outcome.args.pn = ListOf(<<"P", "P">>)
  /\ cable.wire_objects[1].partnumbers.manufacturer = Scalar("A")
  /\ cable.wire_objects[2].partnumbers.manufacturer = Scalar("B")
  /\ cable.wire_objects[2].partnumbers.pn = Scalar("P")
  /\ cable.wire_objects[2].partnumbers.mpn = Scalar(None)

\* a list on a cable that is not a bundle, and a list of the wrong length on
\* a bundle: no cable
C15_WitnessRejected ==
  /\ outcome.op = "Cable" /\ ~outcome.ok /\ cable = Raised
  /\ outcome.err = "lists of part data must match wirecount"
  /\ outcome.args.wirecount = 2 /\ Len(outcome.args.manufacturer.val) = 1

\* C16: a resolver invocation that directly follows a successful one on the
\* same connector or cable succeeds too, and leaves the computed multiplier
\* and the qty of every subitem as the first one left them.
C16_ResolutionIdempotent ==
  [][/\ (outcome.op = "Connector.compute_qty_multipliers" /\ outcome.ok /\ ConnectorCompute)
          => (outcome'.ok /\ Subs(connector') = Subs(connector))
     /\ (outcome.op = "Cable.compute_qty_multipliers" /\ outcome.ok /\ CableCompute)
          => (outcome'.ok /\ Subs(cable') = Subs(cable))]_vars

=============================================================================
